---- MODULE Spec2Model ----
(***************************************************************************)
(* A model of matrix_screensaver.py: the MatrixDisplay grid bookkeeping    *)
(* (write / erase / refresh), the MatrixWorker state machine (step,        *)
(* increment_position) and the polling scheduler (MatrixDisplay.step and   *)
(* MatrixDisplay.run).                                                     *)
(*                                                                         *)
(* Time.  The code only ever compares time.time() with a due-time and adds *)
(* an interval to a due-time, so the model keeps every due-time relative   *)
(* to the clock: next_refresh and next_worker_wake_time[i] hold            *)
(* (due-time - time.time()) in integer ticks, and the passing of time      *)
(* (action Tick) lowers all of them by one.  "time.time() > due" is then   *)
(* "due < 0".                                                              *)
(*                                                                         *)
(* Glyphs are character ordinals; a corpus line is a sequence of ordinals. *)
(* A cell is the tuple <<y, x>> (row, column), as in the code.             *)
(***************************************************************************)
EXTENDS Integers, Sequences, FiniteSets, TLC

VARIABLES
    lines,                  \* MatrixDisplay.lines: the text corpus
    maxyx,                  \* screen.getmaxyx(): <<height, width>>
    MAX_LEN,                \* MatrixDisplay.MAX_LEN
    display,                \* cells, recent_additions, recent_removals, screen
    workers,                \* worker_id -> MatrixWorker fields
    refresh_interval,       \* MatrixDisplay.refresh_interval
    worker_intervals,       \* MatrixDisplay.worker_intervals
    next_refresh,           \* MatrixDisplay.next_refresh (relative to the clock)
    next_worker_wake_time,  \* MatrixDisplay.next_worker_wake_time (relative)
    pc,                     \* where MatrixDisplay.run stands
    worker_id,              \* loop variable of MatrixDisplay.step
    quitting,               \* TRUE once getch() returned a key (inner loop of run)
    exc,                    \* the uncaught exception that ended the program
    calls,                  \* observer: grid calls of the latest worker step,
                            \*   forgotten at the next refresh
    signal_cells,           \* observer: occupied cells when the key was read
    drain_steps             \* observer: worker steps taken since the key

vars == <<lines, maxyx, MAX_LEN, display, workers, refresh_interval,
          worker_intervals, next_refresh, next_worker_wake_time, pc,
          worker_id, quitting, exc, calls, signal_cells, drain_steps>>

(***************************************************************************)
(* Bounds of the model.                                                    *)
(***************************************************************************)
NumWorkers == 2         \* workers of the main specification
Rows == 2               \* drawable rows (height - 1) of the main specification
Cols == 2               \* columns (width) of the main specification
MaxLenBound == 2        \* MAX_LEN of the main specification
MaxInterval == 2        \* worker intervals are drawn from 1..MaxInterval ticks
MaxJitter == 1          \* warm-up jitter of a first wake time, in ticks
LiveInterval == 2       \* worker intervals of the drain specification
LiveRows == 2           \* drawable rows of the drain specification
LiveCols == 1           \* columns of the drain specification
LiveMaxLen == 4         \* MAX_LEN of the drain specification
PollFrame == 2          \* refresh interval of the polling specification, in ticks
PollInterval == 2       \* worker intervals of the polling specification
MaxLag == 1             \* the clock runs at most MaxLag frames past a due-time

None == -1              \* Python's None for x and y

DIRECTION == <<0, 1>>

WORKERS == Cardinality(DOMAIN workers)
WorkerIds == DOMAIN workers

height == maxyx[1]
width == maxyx[2]

(***************************************************************************)
(* curses window: addstr(y, x, str, attr) sets one character and its       *)
(* attribute.  Attributes are named after the display's colour fields;     *)
(* "none" is addstr without an attribute.                                  *)
(***************************************************************************)
Window(h, w) == (0 .. h - 1) \X (0 .. w - 1)

BlankScreen(h, w) == [c \in Window(h, w) |-> <<32, "none">>]

addstr(screen, cell, value, attr) == [screen EXCEPT ![cell] = <<value, attr>>]

\* curses raises curses.error for a position outside the window
addstr_raises(screen, cell) == cell \notin DOMAIN screen

(***************************************************************************)
(* Python dict and set updates.                                            *)
(***************************************************************************)
DictSet(d, k, v) == [c \in (DOMAIN d) \cup {k} |-> IF c = k THEN v ELSE d[c]]

DictDel(d, k) == [c \in (DOMAIN d) \ {k} |-> d[c]]

EmptyDict == [c \in {} |-> <<0, 0>>]

(***************************************************************************)
(* Variants of the operators below with one slip each; the properties at   *)
(* the end of the module are expected to tell each from the original.      *)
(***************************************************************************)
\* write that forgets to cancel a pending removal
write_keeps_removal(d, value, cell, id) ==
    [d EXCEPT !.cells = DictSet(d.cells, cell, <<id, value>>),
              !.screen = addstr(d.screen, cell, value, "init_color"),
              !.recent_additions = d.recent_additions \cup {cell}]

\* write that respects another worker's cell
write_checked(d, value, cell, id) ==
    IF cell \in DOMAIN d.cells /\ d.cells[cell][1] # id
    THEN d
    ELSE [d EXCEPT !.cells = DictSet(d.cells, cell, <<id, value>>),
                   !.screen = addstr(d.screen, cell, value, "init_color"),
                   !.recent_additions = d.recent_additions \cup {cell},
                   !.recent_removals = d.recent_removals \ {cell}]

(***************************************************************************)
(* MatrixDisplay.write                                                     *)
(***************************************************************************)
write(d, value, cell, id) ==
    [d EXCEPT !.cells = DictSet(d.cells, cell, <<id, value>>),
              !.screen = addstr(d.screen, cell, value, "init_color"),
              !.recent_additions = d.recent_additions \cup {cell},
              !.recent_removals = d.recent_removals \ {cell}]

\* write when addstr raises: only the assignment to self.cells has happened
write_raised(d, value, cell, id) ==
    [d EXCEPT !.cells = DictSet(d.cells, cell, <<id, value>>)]

\* erase that books the removal outside the ownership test
erase_books_always(d, cell, id) ==
    IF cell \in DOMAIN d.cells /\ d.cells[cell][1] = id
    THEN [d EXCEPT !.cells = DictDel(d.cells, cell),
                   !.screen = addstr(d.screen, cell, d.cells[cell][2], "poof_color"),
                   !.recent_removals = d.recent_removals \cup {cell},
                   !.recent_additions = d.recent_additions \ {cell}]
    ELSE [d EXCEPT !.recent_removals = d.recent_removals \cup {cell}]

\* erase without the ownership test
erase_unchecked(d, cell, id) ==
    IF cell \in DOMAIN d.cells
    THEN [d EXCEPT !.cells = DictDel(d.cells, cell),
                   !.screen = addstr(d.screen, cell, d.cells[cell][2], "poof_color"),
                   !.recent_removals = d.recent_removals \cup {cell},
                   !.recent_additions = d.recent_additions \ {cell}]
    ELSE d

\* erase that leaves the cell among the pending additions
erase_keeps_addition(d, cell, id) ==
    IF cell \in DOMAIN d.cells /\ d.cells[cell][1] = id
    THEN [d EXCEPT !.cells = DictDel(d.cells, cell),
                   !.screen = addstr(d.screen, cell, d.cells[cell][2], "poof_color"),
                   !.recent_removals = d.recent_removals \cup {cell}]
    ELSE d

(***************************************************************************)
(* MatrixDisplay.erase                                                     *)
(***************************************************************************)
erase(d, cell, id) ==
    IF cell \in DOMAIN d.cells
    THEN LET owner_id == d.cells[cell][1]
             value == d.cells[cell][2]
         IN  IF id = owner_id
             THEN [d EXCEPT !.cells = DictDel(d.cells, cell),
                            !.screen = addstr(d.screen, cell, value, "poof_color"),
                            !.recent_removals = d.recent_removals \cup {cell},
                            !.recent_additions = d.recent_additions \ {cell}]
             ELSE d
    ELSE d

(***************************************************************************)
(* MatrixDisplay.refresh.  The two loops touch disjoint cells or the same  *)
(* cell in a fixed order (blank first, then the normal colour), so the     *)
(* iteration order of the sets does not matter.                            *)
(***************************************************************************)
refresh_raises(d) == \E c \in d.recent_additions : c \notin DOMAIN d.cells

\* refresh that forgets to clear the pending additions
refresh_keeps_additions(d) ==
    LET blanked == [c \in DOMAIN d.screen |->
                      IF c \in d.recent_removals /\ c \notin DOMAIN d.cells
                      THEN <<32, "none">> ELSE d.screen[c]]
        normal == [c \in DOMAIN d.screen |->
                      IF c \in d.recent_additions /\ c \in DOMAIN d.cells
                      THEN <<d.cells[c][2], "norm_color">> ELSE blanked[c]]
    IN  [d EXCEPT !.screen = normal,
                  !.recent_removals = {}]

refresh(d) ==
    LET blanked == [c \in DOMAIN d.screen |->
                      IF c \in d.recent_removals /\ c \notin DOMAIN d.cells
                      THEN <<32, "none">> ELSE d.screen[c]]
        normal == [c \in DOMAIN d.screen |->
                      IF c \in d.recent_additions /\ c \in DOMAIN d.cells
                      THEN <<d.cells[c][2], "norm_color">> ELSE blanked[c]]
    IN  [d EXCEPT !.screen = normal,
                  !.recent_removals = {},
                  !.recent_additions = {}]

\* refresh when the lookup self.cells[cell] raises KeyError: the removals have
\* been blanked and cleared, the additions are left as they were
refresh_raised(d) ==
    [d EXCEPT !.screen = [c \in DOMAIN d.screen |->
                            IF c \in d.recent_removals /\ c \notin DOMAIN d.cells
                            THEN <<32, "none">> ELSE d.screen[c]],
              !.recent_removals = {}]

(***************************************************************************)
(* MatrixWorker.  A step is computed on a record p that carries the worker *)
(* (w), the display (d), the grid calls made so far (calls) and the        *)
(* exception raised, if any (exc); once an exception is raised the rest of *)
(* the step does not run.                                                  *)
(***************************************************************************)
NoExc == "None"

\* F applied to the value of v: the statements F that follow the statement v.
\* (v is evaluated once, however often F reads its argument.)
Then(v, F(_)) == CHOOSE r \in {F(x) : x \in {v}} : TRUE

NewWorker(id, direction_vector) ==
    [id |-> id, text |-> <<>>, x |-> None, y |-> None,
     dx |-> direction_vector[1], dy |-> direction_vector[2],
     cells |-> <<>>, state |-> "init"]

\* [char for char in line if 32 < ord(char) < 127]
Printable(line) == SelectSeq(line, LAMBDA ch : 32 < ch /\ ch < 127)

\* list.pop(): the list without its last element
Front(s) == SubSeq(s, 1, Len(s) - 1)

Last(s) == s[Len(s)]

\* what erase(cell, id) finds at the cell
Hit(d, cell, id) ==
    IF cell \notin DOMAIN d.cells THEN "vacant"
    ELSE IF d.cells[cell][1] = id THEN "owner" ELSE "foreign"

\* in which pending set the cell is
Pending(d, cell) ==
    IF cell \in d.recent_additions THEN "addition"
    ELSE IF cell \in d.recent_removals THEN "removal" ELSE "none"

\* the record of one grid call: what was called and what it found at the cell
Call(op, d, cell, id, value) ==
    [op |-> op, cell |-> cell, id |-> id, value |-> value,
     hit |-> Hit(d, cell, id), pending |-> Pending(d, cell)]

\* display.erase(cell, self.id), recorded
EraseCall(p, cell) ==
    [p EXCEPT !.d = erase(p.d, cell, p.w.id),
              !.calls = Append(p.calls, Call("erase", p.d, cell, p.w.id, 0))]

\* display.write(value, cell, self.id), recorded
WriteCall(p, value, cell) ==
    IF addstr_raises(p.d.screen, cell)
    THEN [p EXCEPT !.d = write_raised(p.d, value, cell, p.w.id),
                   !.calls = Append(p.calls, Call("write", p.d, cell, p.w.id, value)),
                   !.exc = "curses.error"]
    ELSE [p EXCEPT !.d = write(p.d, value, cell, p.w.id),
                   !.calls = Append(p.calls, Call("write", p.d, cell, p.w.id, value))]

\* increment_position that wraps one row (or column) early
increment_position_early(w, window_x_max, window_y_max, rx, ry) ==
    LET x1 == w.x + w.dx
        y1 == w.y + w.dy
    IN  IF ~(0 <= y1 /\ y1 < window_y_max)
        THEN [w EXCEPT !.y = y1 % (window_y_max + 1), !.x = rx]
        ELSE IF ~(0 <= x1 /\ x1 < window_x_max)
        THEN [w EXCEPT !.x = x1 % (window_x_max + 1), !.y = ry]
        ELSE [w EXCEPT !.x = x1, !.y = y1]

\* increment_position that wraps against one row (or column) too many
increment_position_far(w, window_x_max, window_y_max, rx, ry) ==
    LET x1 == w.x + w.dx
        y1 == w.y + w.dy
    IN  IF ~(0 <= y1 /\ y1 <= window_y_max)
        THEN [w EXCEPT !.y = y1 % (window_y_max + 2), !.x = rx]
        ELSE IF ~(0 <= x1 /\ x1 <= window_x_max)
        THEN [w EXCEPT !.x = x1 % (window_x_max + 2), !.y = ry]
        ELSE [w EXCEPT !.x = x1, !.y = y1]

(***************************************************************************)
(* MatrixWorker.increment_position; rx and ry are the values the two       *)
(* random.randint calls return.                                            *)
(***************************************************************************)
increment_position(w, window_x_max, window_y_max, rx, ry) ==
    LET x1 == w.x + w.dx
        y1 == w.y + w.dy
    IN  IF ~(0 <= y1 /\ y1 <= window_y_max)
        THEN [w EXCEPT !.y = y1 % (window_y_max + 1), !.x = rx]
        ELSE IF ~(0 <= x1 /\ x1 <= window_x_max)
        THEN [w EXCEPT !.x = x1 % (window_x_max + 1), !.y = ry]
        ELSE [w EXCEPT !.x = x1, !.y = y1]

(***************************************************************************)
(* MatrixWorker.step, one block of the method per operator.                *)
(***************************************************************************)
\* if self.state == 'init': line is the index random.choice picks, y0 and x0
\* the spawn position
StepInit(p, line, y0, x0) ==
    IF p.exc # NoExc \/ p.w.state # "init" THEN p
    ELSE IF lines = <<>> THEN [p EXCEPT !.exc = "IndexError"]
    ELSE [p EXCEPT !.w.text = Printable(lines[line]),
                   !.w.y = y0,
                   !.w.x = x0,
                   !.w.cells = <<>>,
                   !.w.state = "write"]

\* the trim with its test off by one
StepTrim_late(p) ==
    IF Len(p.w.cells) > MAX_LEN + 1
    THEN EraseCall([p EXCEPT !.w.cells = Tail(p.w.cells)], Head(p.w.cells))
    ELSE p

\* enforce max string length
StepTrim(p) ==
    IF Len(p.w.cells) > MAX_LEN
    THEN EraseCall([p EXCEPT !.w.cells = Tail(p.w.cells)], Head(p.w.cells))
    ELSE p

\* if self.state == 'write'
StepWrite(p, rx, ry) ==
    IF p.exc # NoExc \/ p.w.state # "write" THEN p
    ELSE IF p.w.text # <<>>
    THEN LET cell == <<p.w.y, p.w.x>>
             popped == [p EXCEPT !.w.text = Tail(p.w.text)]
         IN  Then(WriteCall(popped, Head(p.w.text), cell), LAMBDA written :
               IF written.exc # NoExc THEN written
               ELSE Then([written EXCEPT
                            !.w = increment_position(
                                    [written.w EXCEPT
                                       !.cells = Append(written.w.cells, cell)],
                                    width - 1, height - 2, rx, ry)],
                         LAMBDA moved : StepTrim(moved)))
    ELSE [p EXCEPT !.w.state = "erase"]

\* the 'erase' block that reinitializes one step late: only when it found the
\* list empty
StepErase_late(p) ==
    IF p.exc # NoExc \/ p.w.state # "erase" THEN p
    ELSE IF p.w.cells # <<>>
         THEN EraseCall([p EXCEPT !.w.cells = Tail(p.w.cells)], Head(p.w.cells))
         ELSE [p EXCEPT !.w.state = "init"]

\* the 'erase' block that reinitializes after its first erase, whatever is
\* left in the list
StepErase_early(p) ==
    IF p.exc # NoExc \/ p.w.state # "erase" THEN p
    ELSE Then(IF p.w.cells # <<>>
              THEN EraseCall([p EXCEPT !.w.cells = Tail(p.w.cells)], Head(p.w.cells))
              ELSE p,
              LAMBDA erased : [erased EXCEPT !.w.state = "init"])

\* if self.state == 'erase'
StepErase(p) ==
    IF p.exc # NoExc \/ p.w.state # "erase" THEN p
    ELSE Then(IF p.w.cells # <<>>
              THEN EraseCall([p EXCEPT !.w.cells = Tail(p.w.cells)], Head(p.w.cells))
              ELSE p,
              LAMBDA erased :
                IF erased.w.cells = <<>>
                THEN [erased EXCEPT !.w.state = "init"]
                ELSE erased)

\* pop(0) without the erase
PopOldest_no_erase(p) ==
    IF p.w.cells # <<>>
    THEN [p EXCEPT !.w.cells = Tail(p.w.cells)]
    ELSE p

\* display.erase(self.cells.pop(0), self.id) when the list is not empty
PopOldest(p) ==
    IF p.w.cells # <<>>
    THEN EraseCall([p EXCEPT !.w.cells = Tail(p.w.cells)], Head(p.w.cells))
    ELSE p

\* the pop from the head end taken from the tail end as well
PopNewest_oldest(p) ==
    IF p.w.cells # <<>>
    THEN EraseCall([p EXCEPT !.w.cells = Tail(p.w.cells)], Head(p.w.cells))
    ELSE p

\* display.erase(self.cells.pop(), self.id) when the list is not empty
PopNewest(p) ==
    IF p.w.cells # <<>>
    THEN EraseCall([p EXCEPT !.w.cells = Front(p.w.cells)], Last(p.w.cells))
    ELSE p

\* the 'exit' block that reinitializes once the list is empty, as 'erase' does
StepExit_respawn(p) ==
    IF p.exc # NoExc \/ p.w.state # "exit" THEN p
    ELSE Then(PopOldest(p), LAMBDA once :
           Then(PopOldest(once), LAMBDA twice :
             Then(PopNewest(twice), LAMBDA last :
               IF last.w.cells = <<>>
               THEN [last EXCEPT !.w.state = "init"]
               ELSE last)))

\* if self.state == 'exit'
StepExit(p) ==
    IF p.exc # NoExc \/ p.w.state # "exit" THEN p
    ELSE Then(PopOldest(p), LAMBDA once :
           Then(PopOldest(once), LAMBDA twice : PopNewest(twice)))

\* a step that runs one block only: that of the state it starts in
step_elif(w, d, line, y0, x0, rx, ry) ==
    LET p == [w |-> w, d |-> d, calls |-> <<>>, exc |-> NoExc]
    IN  IF w.state = "init" THEN StepInit(p, line, y0, x0)
        ELSE IF w.state = "write" THEN StepWrite(p, rx, ry)
        ELSE IF w.state = "erase" THEN StepErase(p)
        ELSE StepExit(p)

\* MatrixWorker.step(display) of worker w on display d
step(w, d, line, y0, x0, rx, ry) ==
    Then(StepInit([w |-> w, d |-> d, calls |-> <<>>, exc |-> NoExc], line, y0, x0),
         LAMBDA inited :
    Then(StepWrite(inited, rx, ry), LAMBDA written :
    Then(StepErase(written), LAMBDA erased : StepExit(erased))))

(***************************************************************************)
(* The scheduler: MatrixDisplay.step and MatrixDisplay.run.                *)
(*   pc = "refresh"  display.step is at its refresh test                   *)
(*   pc = "workers"  display.step is at worker worker_id of its loop       *)
(*   pc = "getch"    run is at screen.getch() after a step                 *)
(*   pc = "drain"    run is at the test of its inner while loop            *)
(*   pc = "done"     run has returned                                      *)
(*   pc = "error"    an exception has ended the program                    *)
(* run's time limit (1e16 seconds) is never reached.                       *)
(***************************************************************************)
NewDisplay(h, w) ==
    [cells |-> EmptyDict, recent_additions |-> {}, recent_removals |-> {},
     screen |-> BlankScreen(h, w)]

\* where display.step returns to
AfterStep == IF quitting THEN "drain" ELSE "getch"

Owned(d, id) == {c \in DOMAIN d.cells : d.cells[c][1] = id}

\* MatrixDisplay.__init__ and add_file, for nw workers on an h by w screen;
\* the refresh interval is frame ticks, the random worker intervals are at
\* most max_interval ticks, the random warm-up delays at most max_jitter
InitWith(nw, h, w, max_len, corpora, max_interval, max_jitter, frame) ==
    /\ lines \in corpora
    /\ maxyx = <<h, w>>
    /\ MAX_LEN = max_len
    /\ display = NewDisplay(h, w)
    /\ workers = [id \in 0 .. nw - 1 |-> NewWorker(id, DIRECTION)]
    /\ refresh_interval = frame
    /\ worker_intervals \in [0 .. nw - 1 -> 1 .. max_interval]
    /\ next_refresh = refresh_interval
    /\ \E jitter \in [0 .. nw - 1 -> 0 .. max_jitter] :
           next_worker_wake_time = [id \in 0 .. nw - 1 |-> worker_intervals[id] + jitter[id]]
    /\ pc = "refresh"
    /\ worker_id = 0
    /\ quitting = FALSE
    /\ exc = NoExc
    /\ calls = <<>>
    /\ signal_cells = 0
    /\ drain_steps = 0

\* time.time() advances by one tick; the loop falls at most MaxLag refresh
\* intervals behind the clock
Tick ==
    /\ pc \notin {"done", "error"}
    /\ next_refresh - 1 >= -MaxLag * refresh_interval
    /\ \A id \in WorkerIds :
           next_worker_wake_time[id] - 1 >= -MaxLag * refresh_interval
    /\ next_refresh' = next_refresh - 1
    /\ next_worker_wake_time' = [id \in WorkerIds |-> next_worker_wake_time[id] - 1]
    /\ UNCHANGED <<lines, maxyx, MAX_LEN, display, workers, refresh_interval,
                   worker_intervals, pc, worker_id, quitting, exc, calls,
                   signal_cells, drain_steps>>

\* the refresh of a poll that resets its due-time to now + interval
StepRefresh_reset ==
    /\ pc = "refresh"
    /\ next_refresh < 0
    /\ next_refresh' = refresh_interval
    /\ IF refresh_raises(display)
       THEN /\ display' = refresh_raised(display)
            /\ exc' = "KeyError"
            /\ pc' = "error"
            /\ UNCHANGED worker_id
       ELSE /\ display' = refresh(display)
            /\ pc' = "workers"
            /\ worker_id' = 0
            /\ UNCHANGED exc
    /\ calls' = <<>>
    /\ UNCHANGED <<lines, maxyx, MAX_LEN, workers, refresh_interval,
                   worker_intervals, next_worker_wake_time, quitting,
                   signal_cells, drain_steps>>

\* display.step: if time.time() > self.next_refresh
StepRefresh ==
    /\ pc = "refresh"
    /\ next_refresh < 0
    /\ next_refresh' = next_refresh + refresh_interval
    /\ IF refresh_raises(display)
       THEN /\ display' = refresh_raised(display)
            /\ exc' = "KeyError"
            /\ pc' = "error"
            /\ UNCHANGED worker_id
       ELSE /\ display' = refresh(display)
            /\ pc' = "workers"
            /\ worker_id' = 0
            /\ UNCHANGED exc
    /\ calls' = <<>>
    /\ UNCHANGED <<lines, maxyx, MAX_LEN, workers, refresh_interval,
                   worker_intervals, next_worker_wake_time, quitting,
                   signal_cells, drain_steps>>

\* display.step: the refresh is not due
StepNoRefresh ==
    /\ pc = "refresh"
    /\ ~(next_refresh < 0)
    /\ pc' = "workers"
    /\ worker_id' = 0
    /\ UNCHANGED <<lines, maxyx, MAX_LEN, display, workers, refresh_interval,
                   worker_intervals, next_refresh, next_worker_wake_time,
                   quitting, exc, calls, signal_cells, drain_steps>>

\* the for loop of display.step moves on from worker_id
NextWorker ==
    /\ worker_id' = IF worker_id + 1 < WORKERS THEN worker_id + 1 ELSE 0
    /\ pc' = IF worker_id + 1 < WORKERS THEN "workers" ELSE AfterStep

\* the values a random draw from lo..hi can take in a step of worker w; a step
\* that starts outside the given states, or in which the draw cannot be
\* reached, never makes the draw (one dummy value), and random.choice of an
\* empty corpus raises before it returns anything
Choices(w, states, reached, lo, hi) ==
    IF w.state \in states /\ reached /\ lo <= hi THEN lo .. hi ELSE {lo}

\* the step of a due worker that resets its due-time to now + interval
StepWorker_reset ==
    /\ pc = "workers"
    /\ next_worker_wake_time[worker_id] < 0
    /\ next_worker_wake_time' =
           [next_worker_wake_time EXCEPT ![worker_id] = worker_intervals[worker_id]]
    /\ \E line \in Choices(workers[worker_id], {"init"}, TRUE, 1, Len(lines)),
          y0 \in Choices(workers[worker_id], {"init"}, TRUE, 0, height - 2),
          x0 \in Choices(workers[worker_id], {"init"}, TRUE, 0, width - 1),
          \* y leaves the window only if dy moves it, x only if dx does
          rx \in Choices(workers[worker_id], {"init", "write"},
                         workers[worker_id].dy # 0, 0, width - 1),
          ry \in Choices(workers[worker_id], {"init", "write"},
                         workers[worker_id].dx # 0, 0, height - 2) :
          LET p == step(workers[worker_id], display, line, y0, x0, rx, ry)
          IN  /\ workers' = [workers EXCEPT ![worker_id] = p.w]
              /\ display' = p.d
              /\ calls' = p.calls
              /\ exc' = p.exc
              /\ IF p.exc # NoExc
                 THEN pc' = "error" /\ worker_id' = worker_id
                 ELSE NextWorker
    /\ drain_steps' = IF quitting /\ Owned(display, worker_id) # {}
                      THEN drain_steps + 1 ELSE drain_steps
    /\ UNCHANGED <<lines, maxyx, MAX_LEN, refresh_interval, worker_intervals,
                   next_refresh, quitting, signal_cells>>

\* display.step: worker worker_id is due and takes a step
StepWorker ==
    /\ pc = "workers"
    /\ next_worker_wake_time[worker_id] < 0
    /\ next_worker_wake_time' =
           [next_worker_wake_time EXCEPT
              ![worker_id] = next_worker_wake_time[worker_id] + worker_intervals[worker_id]]
    /\ \E line \in Choices(workers[worker_id], {"init"}, TRUE, 1, Len(lines)),
          y0 \in Choices(workers[worker_id], {"init"}, TRUE, 0, height - 2),
          x0 \in Choices(workers[worker_id], {"init"}, TRUE, 0, width - 1),
          \* y leaves the window only if dy moves it, x only if dx does
          rx \in Choices(workers[worker_id], {"init", "write"},
                         workers[worker_id].dy # 0, 0, width - 1),
          ry \in Choices(workers[worker_id], {"init", "write"},
                         workers[worker_id].dx # 0, 0, height - 2) :
          LET p == step(workers[worker_id], display, line, y0, x0, rx, ry)
          IN  /\ workers' = [workers EXCEPT ![worker_id] = p.w]
              /\ display' = p.d
              /\ calls' = p.calls
              /\ exc' = p.exc
              /\ IF p.exc # NoExc
                 THEN pc' = "error" /\ worker_id' = worker_id
                 ELSE NextWorker
    /\ drain_steps' = IF quitting /\ Owned(display, worker_id) # {}
                      THEN drain_steps + 1 ELSE drain_steps
    /\ UNCHANGED <<lines, maxyx, MAX_LEN, refresh_interval, worker_intervals,
                   next_refresh, quitting, signal_cells>>

\* display.step: worker worker_id is not due
SkipWorker ==
    /\ pc = "workers"
    /\ ~(next_worker_wake_time[worker_id] < 0)
    /\ NextWorker
    /\ UNCHANGED <<lines, maxyx, MAX_LEN, display, workers, refresh_interval,
                   worker_intervals, next_refresh, next_worker_wake_time,
                   quitting, exc, calls, signal_cells, drain_steps>>

\* run: screen.getch() returns -1, the outer loop calls step again
GetchNone ==
    /\ pc = "getch"
    /\ pc' = "refresh"
    /\ UNCHANGED <<lines, maxyx, MAX_LEN, display, workers, refresh_interval,
                   worker_intervals, next_refresh, next_worker_wake_time,
                   worker_id, quitting, exc, calls, signal_cells, drain_steps>>

\* run: screen.getch() returns a key, every worker is set to 'exit'
GetchKey ==
    /\ pc = "getch"
    /\ workers' = [id \in WorkerIds |-> [workers[id] EXCEPT !.state = "exit"]]
    /\ quitting' = TRUE
    /\ pc' = "drain"
    /\ signal_cells' = Cardinality(DOMAIN display.cells)
    /\ UNCHANGED <<lines, maxyx, MAX_LEN, display, refresh_interval,
                   worker_intervals, next_refresh, next_worker_wake_time,
                   worker_id, exc, calls, drain_steps>>

\* run: while self.cells or self.recent_removals: self.step()
DrainMore ==
    /\ pc = "drain"
    /\ DOMAIN display.cells # {} \/ display.recent_removals # {}
    /\ pc' = "refresh"
    /\ UNCHANGED <<lines, maxyx, MAX_LEN, display, workers, refresh_interval,
                   worker_intervals, next_refresh, next_worker_wake_time,
                   worker_id, quitting, exc, calls, signal_cells, drain_steps>>

\* run: the inner loop ends, self.refresh() and break
DrainEnd ==
    /\ pc = "drain"
    /\ ~(DOMAIN display.cells # {} \/ display.recent_removals # {})
    /\ IF refresh_raises(display)
       THEN /\ display' = refresh_raised(display)
            /\ exc' = "KeyError"
            /\ pc' = "error"
       ELSE /\ display' = refresh(display)
            /\ pc' = "done"
            /\ UNCHANGED exc
    /\ calls' = <<>>
    /\ UNCHANGED <<lines, maxyx, MAX_LEN, workers, refresh_interval,
                   worker_intervals, next_refresh, next_worker_wake_time,
                   worker_id, quitting, signal_cells, drain_steps>>

Next ==
    \/ Tick
    \/ StepRefresh
    \/ StepNoRefresh
    \/ StepWorker
    \/ SkipWorker
    \/ GetchNone
    \/ GetchKey
    \/ DrainMore
    \/ DrainEnd

(***************************************************************************)
(* Specifications.                                                         *)
(***************************************************************************)
\* "A BC" and a line without printable ASCII ("\xe9")
Corpus == << <<65, 32, 66, 67>>, <<233>> >>

\* the main specification: the corpus above, or no line at all
Init ==
    InitWith(NumWorkers, Rows + 1, Cols, MaxLenBound, {Corpus, <<>>}, MaxInterval, MaxJitter, 1)

Spec == Init /\ [][Next]_vars

\* the single-stream scenario: one worker on a 5 by 10 screen, MAX_LEN 3, the
\* corpus "AB" and "C"
ScenarioCorpus == << <<65, 66>>, <<67>> >>

InitScenario == InitWith(1, 5, 10, 3, {ScenarioCorpus}, MaxInterval, MaxJitter, 1)

SpecScenario == InitScenario /\ [][Next]_vars

\* the drain specification: streams longer than MAX_LEN on a small screen, a
\* clock that keeps advancing and a loop that keeps polling
LiveCorpus == << <<65, 66, 67, 68, 69>> >>

InitLive ==
    InitWith(NumWorkers, LiveRows + 1, LiveCols, LiveMaxLen, {LiveCorpus}, LiveInterval, 0, 1)

\* every step of the program but the passing of time
Program ==
    \/ StepRefresh
    \/ StepNoRefresh
    \/ StepWorker
    \/ SkipWorker
    \/ GetchNone
    \/ GetchKey
    \/ DrainMore
    \/ DrainEnd

SpecLive == InitLive /\ [][Next]_vars /\ WF_vars(Tick) /\ WF_vars(Program)

\* the polling specification: a frame of PollFrame ticks, so that a worker with
\* a shorter interval can be several intervals behind the clock; two cells, "AB"
PollCorpus == << <<65, 66>> >>

InitPoll == InitWith(NumWorkers, 3, 1, 1, {PollCorpus}, PollInterval, 0, PollFrame)

SpecPoll == InitPoll /\ [][Next]_vars

(***************************************************************************)
(* Properties.                                                             *)
(***************************************************************************)
\* a transition that is one step of worker worker_id (Tick moves next_refresh
\* too, no other action moves a wake time)
WorkerStepOf ==
    /\ pc = "workers"
    /\ next_refresh' = next_refresh
    /\ next_worker_wake_time' # next_worker_wake_time

\* the cells a worker can address
GridCells == DOMAIN display.screen

Glyphs == {65, 66, 67}

\* erase by anyone but the owner returns the display it was given, once or twice
EraseLeavesAlone(d) ==
    \A c \in DOMAIN d.screen, id \in WorkerIds :
        Hit(d, c, id) # "owner" =>
            /\ erase(d, c, id) = d
            /\ erase(erase(d, c, id), c, id) = d

\* C1: erase(cell, actorId) changes the grid only when actorId is the occupant:
\* on a vacant cell or a cell of another actor the occupancy map and both
\* pending sets (and the screen) stay as they were, also when the call is
\* repeated; a worker step whose grid calls are all such erases leaves the
\* display unchanged.
C1_EraseNonOwnerNoOp ==
    [][ /\ EraseLeavesAlone(display')
        /\ ( /\ WorkerStepOf
             /\ \A k \in DOMAIN calls' :
                    calls'[k].op = "erase" /\ calls'[k].hit # "owner" )
           => display' = display ]_vars

\* a step has just erased a vacant cell and a cell of another worker
C1_Witness ==
    /\ \E k \in DOMAIN calls : calls[k].op = "erase" /\ calls[k].hit = "vacant"
    /\ \E k \in DOMAIN calls : calls[k].op = "erase" /\ calls[k].hit = "foreign"

\* C2: no step of a worker deletes the occupancy entry of another worker: such
\* an entry stays as it is unless the stepping worker's own write takes the cell
\* over (the cell is then the stepping worker's to erase);
\* and an erase that finds another worker's cell (trim, Erase or Exit) leaves
\* the entry, the glyph on the screen and the pending sets of that cell alone.
C2_ForeignEntriesSurvive ==
    [][ WorkerStepOf =>
          /\ \A c \in DOMAIN display.cells :
                 display.cells[c][1] # worker_id =>
                    \/ /\ c \in DOMAIN display'.cells
                       /\ display'.cells[c] = display.cells[c]
                    \/ /\ \E k \in DOMAIN calls' :
                              calls'[k].op = "write" /\ calls'[k].cell = c
                       /\ c \in DOMAIN display'.cells =>
                              display'.cells[c][1] = worker_id
          /\ \A k \in DOMAIN calls' :
                 (calls'[k].op = "erase" /\ calls'[k].hit = "foreign") =>
                    LET c == calls'[k].cell
                    IN  /\ c \in DOMAIN display'.cells
                        /\ display'.cells[c] = display.cells[c]
                        /\ display'.cells[c][1] # worker_id
                        /\ display'.screen[c] = display.screen[c]
                        /\ display'.screen[c][1] = display'.cells[c][2]
                        /\ c \notin display'.recent_removals ]_vars

\* worker A has just erased a cell that B had overwritten, and B still has it
C2_Witness ==
    \E k \in DOMAIN calls :
        /\ calls[k].op = "erase"
        /\ calls[k].hit = "foreign"
        /\ calls[k].cell \in DOMAIN display.cells
        /\ display.cells[calls[k].cell][1] # calls[k].id
        /\ display.screen[calls[k].cell][1] = display.cells[calls[k].cell][2]

\* C4: after every worker step, in every state of the worker, its cell list is
\* no longer than MAX_LEN.
C4_CellListBounded ==
    \A id \in WorkerIds : Len(workers[id].cells) <= MAX_LEN

\* a Write step has just trimmed the list back to MAX_LEN
C4_Witness ==
    /\ Len(calls) = 2
    /\ calls[1].op = "write"
    /\ calls[2].op = "erase"
    /\ Len(workers[calls[1].id].cells) = MAX_LEN
    /\ workers[calls[1].id].state = "write"

\* does a later call of the step touch the cell of call k
TouchedLater(k) ==
    \E j \in DOMAIN calls : j > k /\ calls[j].cell = calls[k].cell

\* C5: the pending additions and the pending removals are disjoint; a written
\* cell is a pending addition and no pending removal, a cell erased by its
\* owner is a pending removal and no pending addition.
C5_PendingSetsDisjoint ==
    /\ display.recent_additions \cap display.recent_removals = {}
    /\ exc = NoExc =>
         \A k \in DOMAIN calls :
            ~TouchedLater(k) =>
               /\ calls[k].op = "write" =>
                    /\ calls[k].cell \in display.recent_additions
                    /\ calls[k].cell \notin display.recent_removals
               /\ (calls[k].op = "erase" /\ calls[k].hit = "owner") =>
                    /\ calls[k].cell \in display.recent_removals
                    /\ calls[k].cell \notin display.recent_additions

\* one step wrote a cell that was a pending removal and erased a cell that
\* was a pending addition
C5_Witness ==
    /\ \E k \in DOMAIN calls : calls[k].op = "write" /\ calls[k].pending = "removal"
    /\ \E k \in DOMAIN calls :
           calls[k].op = "erase" /\ calls[k].hit = "owner" /\ calls[k].pending = "addition"

\* C6: with an empty corpus the failure is raised before the scheduling loop
\* is entered: no worker step ever runs against the empty corpus, so the
\* program never ends on an exception raised out of a worker's 'init' block
\* in the middle of a poll.
C6_EmptyCorpusRejectedAtStartup ==
    lines = <<>> => ~(pc = "error" /\ exc = "IndexError")

\* C7: with DIRECTION (0, 1), a Write step that wrote at the last valid row
\* (height - 2) leaves the worker at row 0 with a column in 0 .. width - 1; a
\* Write step that wrote at a row above it leaves the worker one row down
\* in the same column.
C7_WrapRule ==
    [][ ( /\ WorkerStepOf
          /\ exc' = NoExc
          /\ calls' # <<>>
          /\ calls'[1].op = "write" ) =>
            LET cell == calls'[1].cell
                w == workers'[worker_id]
            IN  /\ DIRECTION = <<0, 1>>
                /\ IF cell[1] = height - 2
                   THEN w.y = 0 /\ w.x \in 0 .. width - 1
                   ELSE w.y = cell[1] + 1 /\ w.x = cell[2] ]_vars

\* a worker wrote at the last row and came back at row 0 in another column
C7_Witness ==
    /\ calls # <<>>
    /\ calls[1].op = "write"
    /\ calls[1].cell[1] = height - 2
    /\ workers[calls[1].id].y = 0
    /\ workers[calls[1].id].x # calls[1].cell[2]

\* C9: a worker in state 'exit' stays in 'exit'; once the key has been read
\* every worker is in 'exit', no worker step writes to the grid and the number
\* of occupancy entries never grows.
C9_ExitIsFinal ==
    [][ /\ \A id \in WorkerIds :
               workers[id].state = "exit" => workers'[id].state = "exit"
        /\ quitting' => \A id \in WorkerIds : workers'[id].state = "exit"
        /\ quitting =>
             /\ Cardinality(DOMAIN display'.cells) <= Cardinality(DOMAIN display.cells)
             /\ WorkerStepOf => \A k \in DOMAIN calls' : calls'[k].op # "write" ]_vars

\* after the key a worker has erased its last cells and is still in 'exit'
C9_Witness ==
    /\ quitting
    /\ drain_steps > 0
    /\ \E k \in DOMAIN calls :
           /\ calls[k].hit = "owner"
           /\ workers[calls[k].id].cells = <<>>
           /\ workers[calls[k].id].state = "exit"

\* C10: write makes no ownership check: whoever held the cell (nobody, the
\* writer, another worker), after the write of a worker step the entry of the cell
\* is (actorId, glyph), the cell is a pending addition and no pending removal
\* (unless the same step goes on to erase that cell), and the entries of the
\* cells the step neither wrote nor erased are as before.
C10_WriteUnconditional ==
    [][ ( /\ WorkerStepOf
          /\ exc' = NoExc
          /\ calls' # <<>>
          /\ calls'[1].op = "write" ) =>
            LET c == calls'[1].cell
                erased == {calls'[k].cell : k \in {j \in DOMAIN calls' : j > 1}}
            IN  /\ calls'[1].hit = Hit(display, c, worker_id)
                /\ c \notin erased =>
                      /\ c \in DOMAIN display'.cells
                      /\ display'.cells[c] = <<worker_id, calls'[1].value>>
                      /\ c \in display'.recent_additions
                      /\ c \notin display'.recent_removals
                /\ \A o \in GridCells \ ({c} \cup erased) :
                      /\ o \in DOMAIN display'.cells <=> o \in DOMAIN display.cells
                      /\ o \in DOMAIN display.cells =>
                            display'.cells[o] = display.cells[o] ]_vars

\* a worker has just written over the cell of another worker and holds it
C10_Witness ==
    \E k \in DOMAIN calls :
        /\ calls[k].op = "write"
        /\ calls[k].hit = "foreign"
        /\ display.cells[calls[k].cell] = <<calls[k].id, calls[k].value>>
        /\ calls[k].cell \in display.recent_additions

\* the grid holds exactly the given entries
GridIs(entries) == display.cells = entries

\* the scenario after the 1st, 2nd and 3rd step of the stream spawned at
\* row 0, column 3 with the queue "AB"
Tick1 ==
    /\ workers[0].state = "write"
    /\ workers[0].text = <<66>>
    /\ workers[0].cells = << <<0, 3>> >>
    /\ workers[0].y = 1 /\ workers[0].x = 3
    /\ GridIs(DictSet(EmptyDict, <<0, 3>>, <<0, 65>>))

Tick2 ==
    /\ workers[0].state = "write"
    /\ workers[0].text = <<>>
    /\ workers[0].cells = << <<0, 3>>, <<1, 3>> >>
    /\ GridIs(DictSet(DictSet(EmptyDict, <<0, 3>>, <<0, 65>>), <<1, 3>>, <<0, 66>>))

Tick3 ==
    /\ workers[0].state = "erase"
    /\ workers[0].cells = << <<1, 3>> >>
    /\ GridIs(DictSet(EmptyDict, <<1, 3>>, <<0, 66>>))

Tick4 ==
    /\ workers[0].state = "init"
    /\ workers[0].cells = <<>>
    /\ GridIs(EmptyDict)

\* C8: on a 5 by 10 screen with MAX_LEN 3 and DIRECTION (0, 1), a worker that
\* spawns at row 0, column 3 with the queue "AB" writes 'A' at (0,3) in its 1st
\* step (list [(0,3)], row 1), 'B' at (1,3) in its 2nd (list [(0,3),(1,3)]),
\* turns to 'erase' and erases (0,3) in its 3rd (list [(1,3)]), erases (1,3) in
\* its 4th and is then in 'init' with an empty list.
C8_SingleStreamTrace ==
    [][ WorkerStepOf =>
          /\ ( /\ workers[0].state = "init"
               /\ calls' # <<>>
               /\ calls'[1].op = "write"
               /\ calls'[1].cell = <<0, 3>>
               /\ workers'[0].text = <<66>> ) =>
                  (Tick1' /\ calls' = <<Call("write", display, <<0, 3>>, 0, 65)>>)
          /\ Tick1 =>
                  (Tick2' /\ Len(calls') = 1 /\ calls'[1].op = "write"
                          /\ calls'[1].cell = <<1, 3>> /\ calls'[1].value = 66)
          /\ Tick2 =>
                  (Tick3' /\ Len(calls') = 1 /\ calls'[1].op = "erase"
                          /\ calls'[1].cell = <<0, 3>> /\ calls'[1].hit = "owner")
          /\ Tick3 =>
                  (Tick4' /\ Len(calls') = 1 /\ calls'[1].op = "erase"
                          /\ calls'[1].cell = <<1, 3>> /\ calls'[1].hit = "owner") ]_vars

\* the stream is at the end of its 3rd step: (0,3) erased, (1,3) left
C8_Witness ==
    /\ Tick3
    /\ display.screen[<<0, 3>>] \in {<<65, "poof_color">>, <<32, "none">>}
    /\ display.screen[<<1, 3>>][1] = 66

\* worker steps one worker needs to shed a full list: 3 cells a step
StepsPerWorker == (MAX_LEN + 2) \div 3

RefreshOf ==
    \/ pc = "refresh" /\ next_refresh' > next_refresh
    \/ pc = "drain" /\ pc' \in {"done", "error"}

\* C11: refresh() leaves the occupancy map unchanged and empties the pending
\* additions and the pending removals; on the screen it blanks only cells that
\* were pending removals and are unoccupied, gives the normal style (with the
\* glyph of the occupancy entry) only to cells that were pending additions, and
\* leaves every other cell as it was.
C11_RefreshFrame ==
    [][ RefreshOf =>
          /\ exc' = NoExc
          /\ display'.cells = display.cells
          /\ display'.recent_additions = {}
          /\ display'.recent_removals = {}
          /\ \A c \in GridCells :
                 IF c \in display.recent_additions
                 THEN display'.screen[c] = <<display.cells[c][2], "norm_color">>
                 ELSE IF c \in display.recent_removals /\ c \notin DOMAIN display.cells
                 THEN display'.screen[c] = <<32, "none">>
                 ELSE display'.screen[c] = display.screen[c] ]_vars

\* the display as a refresh left it (no grid call since): an occupied cell in
\* the normal style beside a blanked cell, and nothing pending
C11_Witness ==
    /\ calls = <<>>
    /\ pc = "workers"
    /\ display.recent_additions = {}
    /\ display.recent_removals = {}
    /\ \E c \in DOMAIN display.cells :
           display.screen[c] = <<display.cells[c][2], "norm_color">>
    /\ \E c \in GridCells \ DOMAIN display.cells : display.screen[c] = <<32, "none">>
    /\ \E id \in WorkerIds : workers[id].state = "erase"

\* a transition in which the for loop of display.step deals with worker
\* worker_id (steps it or passes it by)
PollStepOf ==
    /\ pc = "workers"
    /\ pc' # pc \/ worker_id' # worker_id

\* the transition is MatrixWorker.step of worker id on the display
SteppedAs(id) ==
    \E line \in 1 .. (IF lines = <<>> THEN 1 ELSE Len(lines)),
       y0 \in 0 .. height - 2, x0 \in 0 .. width - 1,
       rx \in 0 .. width - 1, ry \in 0 .. height - 2 :
        LET p == step(workers[id], display, line, y0, x0, rx, ry)
        IN  workers'[id] = p.w /\ display' = p.d /\ calls' = p.calls

\* C12: a poll deals with the workers one by one from 0 in increasing
\* identifier order, each once; a worker whose due-time has elapsed takes one
\* step and its due-time moves on by exactly its own interval (so a worker
\* more than one interval behind is still due, and is stepped again by the
\* next poll); a worker that is not due is passed by; nothing else steps a
\* worker or moves a due-time forward.
C12_PollStepsDueWorkers ==
    [][ /\ (pc = "refresh" /\ pc' = "workers") => worker_id' = 0
        /\ PollStepOf =>
              /\ IF next_worker_wake_time[worker_id] < 0
                 THEN /\ next_worker_wake_time' =
                            [next_worker_wake_time EXCEPT
                               ![worker_id] = @ + worker_intervals[worker_id]]
                      /\ SteppedAs(worker_id)
                      /\ \A id \in WorkerIds \ {worker_id} : workers'[id] = workers[id]
                      /\ next_worker_wake_time[worker_id] + worker_intervals[worker_id] < 0
                            => next_worker_wake_time'[worker_id] < 0
                 ELSE /\ next_worker_wake_time' = next_worker_wake_time
                      /\ workers' = workers
                      /\ display' = display
              /\ pc' = "workers" => worker_id' = worker_id + 1
              /\ pc' \notin {"workers", "error"} =>
                    worker_id = WORKERS - 1 /\ pc' = AfterStep
        /\ (workers' # workers /\ pc # "getch") => PollStepOf
        /\ (\E id \in WorkerIds :
                next_worker_wake_time'[id] > next_worker_wake_time[id]) => PollStepOf
        /\ worker_intervals' = worker_intervals ]_vars

\* the poll is at a worker that is more than one interval behind the clock,
\* and the latest worker step was this worker's own
C12_Witness ==
    /\ pc = "workers"
    /\ next_worker_wake_time[worker_id] + worker_intervals[worker_id] < 0
    /\ calls # <<>>
    /\ calls[1].id = worker_id
    /\ \E id \in WorkerIds : worker_intervals[id] > worker_intervals[worker_id]

\* the cells of the grid calls of the latest step with the given op and hit
CalledCells(cs, op, hits) ==
    {cs[k].cell : k \in {j \in DOMAIN cs : cs[j].op = op /\ cs[j].hit \in hits}}

\* C13: the refresh of a poll runs only at the start of the poll, exactly when
\* the frame due-time has elapsed, and moves that due-time on by exactly the
\* refresh interval; the poll then goes on to worker 0, and until it is over
\* there is no further refresh; a worker step is never mixed with a refresh: its
\* effect on the display is that of its own grid calls, what was pending
\* stays pending and no cell turns to the normal style.
C13_RefreshOncePerPoll ==
    [][ /\ next_refresh' > next_refresh =>
              /\ pc = "refresh"
              /\ next_refresh < 0
              /\ next_refresh' = next_refresh + refresh_interval
              /\ display' = refresh(display)
              /\ workers' = workers
              /\ next_worker_wake_time' = next_worker_wake_time
              /\ pc' = "workers" /\ worker_id' = 0
        /\ (pc = "refresh" /\ pc' # pc) =>
              IF next_refresh < 0
              THEN next_refresh' > next_refresh
              ELSE next_refresh' = next_refresh /\ display' = display
        /\ pc = "workers" => next_refresh' <= next_refresh
        /\ pc' = "refresh" => pc \in {"refresh", "getch", "drain"}
        /\ refresh_interval' = refresh_interval
        /\ WorkerStepOf =>
              /\ SteppedAs(worker_id)
              /\ display.recent_additions \subseteq
                    display'.recent_additions \cup CalledCells(calls', "erase", {"owner"})
              /\ display.recent_removals \subseteq
                    display'.recent_removals
                       \cup CalledCells(calls', "write", {"vacant", "owner", "foreign"})
              /\ \A c \in GridCells :
                     display'.screen[c] # display.screen[c] =>
                        display'.screen[c][2] \in {"init_color", "poof_color"} ]_vars

\* a refresh has run and then worker 0 has stepped: the refresh is not due,
\* the poll is past worker 0, all that is pending comes from that step, and a
\* cell written earlier is in the normal style
C13_Witness ==
    /\ pc = "workers"
    /\ worker_id > 0
    /\ next_refresh >= 0
    /\ calls # <<>>
    /\ calls[1].id = 0
    /\ display.recent_additions = CalledCells(calls, "write", {"vacant", "owner", "foreign"})
    /\ display.recent_additions # {}
    /\ display.recent_removals \subseteq CalledCells(calls, "erase", {"owner"})
    /\ \E c \in DOMAIN display.cells : display.screen[c][2] = "norm_color"

\* the smaller of two numbers
Min(a, b) == IF a < b THEN a ELSE b

\* the cells an 'exit' step takes off a list: the two oldest, then the newest
\* of what is left
ExitOrder(cells) ==
    LET n == Len(cells)
    IN  IF n >= 3 THEN <<cells[1], cells[2], cells[n]>> ELSE cells

\* C14: one step of a worker in 'exit' with a list of length n takes
\* min(n, 3) cells off the list, the two oldest and then the newest of the
\* rest, and passes each, in that order, to erase with the worker's own id; the
\* middle of the list stays in its order, the worker stays in 'exit', and a
\* list of at most 3 cells is empty after the step.
C14_ExitStepRemovesThree ==
    [][ (WorkerStepOf /\ workers[worker_id].state = "exit") =>
          LET cells == workers[worker_id].cells
              n == Len(cells)
          IN  /\ Len(workers'[worker_id].cells) = n - Min(n, 3)
              /\ workers'[worker_id].cells = SubSeq(cells, 3, n - 1)
              /\ n <= 3 => workers'[worker_id].cells = <<>>
              /\ Len(calls') = Min(n, 3)
              /\ \A k \in DOMAIN calls' :
                     /\ calls'[k].op = "erase"
                     /\ calls'[k].id = worker_id
                     /\ calls'[k].cell = ExitOrder(cells)[k]
              /\ workers'[worker_id].state = "exit"
              /\ exc' = NoExc ]_vars

\* an 'exit' step has just taken three cells off a list of four, the oldest
\* two and the newest, which is not the third oldest
C14_Witness ==
    /\ quitting
    /\ Len(calls) = 3
    /\ \A k \in DOMAIN calls : calls[k].op = "erase"
    /\ calls[3].cell # calls[1].cell
    /\ workers[calls[1].id].state = "exit"
    /\ Len(workers[calls[1].id].cells) = 1
    /\ workers[calls[1].id].cells[1] = calls[1].cell

\* the lines of the corpus without a printable character
EmptyQueueLines == {l \in DOMAIN lines : Printable(lines[l]) = <<>>}

\* no line of the corpus has exactly one printable character (a step from
\* 'init' that ends with an empty queue then sampled an empty queue)
NoSingleGlyphLine == \A l \in DOMAIN lines : Len(Printable(lines[l])) # 1

\* C15: a step of a worker in 'init' that samples a line without a printable
\* character runs 'init', 'write' and 'erase' in one go: it makes no grid call,
\* leaves the display as it was, raises nothing, and ends with an empty queue,
\* an empty cell list and the worker in 'init' again.  Stated for the step
\* operator on every reachable display, and for the transitions of the program.
C15_EmptyQueueStep ==
    [][ /\ \A id \in WorkerIds, l \in EmptyQueueLines,
              y0 \in 0 .. height - 2, x0 \in 0 .. width - 1 :
               workers[id].state = "init" =>
                  LET p == step(workers[id], display, l, y0, x0, 0, 0)
                  IN  /\ p.calls = <<>>
                      /\ p.d = display
                      /\ p.exc = NoExc
                      /\ p.w.state = "init"
                      /\ p.w.cells = <<>>
                      /\ p.w.text = <<>>
        /\ ( /\ WorkerStepOf
             /\ workers[worker_id].state = "init"
             /\ lines # <<>>
             /\ NoSingleGlyphLine
             /\ workers'[worker_id].text = <<>> ) =>
                /\ calls' = <<>>
                /\ display' = display
                /\ exc' = NoExc /\ pc' # "error"
                /\ workers'[worker_id].state = "init"
                /\ workers'[worker_id].cells = <<>> ]_vars

\* the latest worker step made no grid call although a cell has been written
\* since the last refresh and no key has been read: it was a step on an empty
\* queue, and a worker is in 'init' again with a spawn position, an empty
\* queue and an empty list
C15_Witness ==
    /\ calls = <<>>
    /\ ~quitting
    /\ exc = NoExc
    /\ display.recent_additions # {}
    /\ \E id \in WorkerIds :
           /\ workers[id].state = "init"
           /\ workers[id].x # None
           /\ workers[id].text = <<>>
           /\ workers[id].cells = <<>>

\* the cells of worker id's list whose occupancy entry belongs to another worker
Stale(id) ==
    {workers[id].cells[k] : k \in {j \in DOMAIN workers[id].cells :
                                     Hit(display, workers[id].cells[j], id) = "foreign"}}

\* C16: where a worker's list holds a cell whose occupancy entry another
\* worker owns, the erase of that cell by the first worker returns the display
\* as it was; a step in 'erase' or 'exit' whose grid calls all find such cells
\* leaves the display unchanged and only drops those cells from the stepping
\* worker's list (its queue and position, and the other workers, stay as they
\* were).
C16_StaleEntryHarmless ==
    [][ /\ \A id \in WorkerIds : \A c \in Stale(id) : erase(display, c, id) = display
        /\ ( /\ WorkerStepOf
             /\ workers[worker_id].state \in {"erase", "exit"}
             /\ calls' # <<>>
             /\ \A k \in DOMAIN calls' : calls'[k].hit = "foreign" ) =>
                /\ \A k \in DOMAIN calls' : calls'[k].cell \in Stale(worker_id)
                /\ display' = display
                /\ Len(workers'[worker_id].cells) =
                      Len(workers[worker_id].cells) - Len(calls')
                /\ workers'[worker_id].text = workers[worker_id].text
                /\ workers'[worker_id].x = workers[worker_id].x
                /\ workers'[worker_id].y = workers[worker_id].y
                /\ \A id \in WorkerIds \ {worker_id} : workers'[id] = workers[id] ]_vars

\* a worker in 'erase' has just dropped from its list a cell that another
\* worker had written over; that worker still owns the cell and has it in its
\* own list
C16_Witness ==
    /\ WORKERS >= 2
    /\ Len(calls) = 1
    /\ calls[1].op = "erase"
    /\ calls[1].hit = "foreign"
    /\ workers[calls[1].id].state \in {"erase", "init"}
    /\ \A k \in DOMAIN workers[calls[1].id].cells :
           workers[calls[1].id].cells[k] # calls[1].cell
    /\ \E id \in WorkerIds \ {calls[1].id} :
           /\ calls[1].cell \in Owned(display, id)
           /\ \E k \in DOMAIN workers[id].cells : workers[id].cells[k] = calls[1].cell

\* the cells of a list, as a set
ListCells(id) == {workers[id].cells[k] : k \in DOMAIN workers[id].cells}

\* C17: every occupied cell is in the cell list of the worker recorded as its
\* owner, and that owner is one of the workers: the grid holds no entry that
\* no worker will come to erase.
C17_NoOrphanCell ==
    \A c \in DOMAIN display.cells :
        /\ display.cells[c][1] \in WorkerIds
        /\ c \in ListCells(display.cells[c][1])

\* a stream has just wrapped onto its own oldest cell, which the trim of the
\* same step erased (the cell is in the list and unoccupied), while another
\* occupied cell is in two lists (one worker wrote over the other)
C17_Witness ==
    /\ Len(calls) = 2
    /\ calls[1].op = "write"
    /\ calls[2].op = "erase"
    /\ calls[2].cell = calls[1].cell
    /\ calls[1].cell \in ListCells(calls[1].id) \ DOMAIN display.cells
    /\ \E c \in DOMAIN display.cells :
           \E id \in WorkerIds \ {display.cells[c][1]} : c \in ListCells(id)

\* C18: every pending addition has an occupancy entry, so the lookup
\* self.cells[cell] of refresh finds every cell it asks for: no refresh raises
\* KeyError.
C18_AdditionsOccupied ==
    /\ display.recent_additions \subseteq DOMAIN display.cells
    /\ ~refresh_raises(display)
    /\ exc # "KeyError"

\* a step has just erased a cell that was a pending addition and tried to
\* erase a cell of the other worker, and a refresh with additions to look up
\* is due
C18_Witness ==
    /\ \E k \in DOMAIN calls :
           /\ calls[k].op = "erase"
           /\ calls[k].hit = "owner"
           /\ calls[k].pending = "addition"
           /\ calls[k].cell \notin DOMAIN display.cells
    /\ \E k \in DOMAIN calls : calls[k].op = "erase" /\ calls[k].hit = "foreign"
    /\ display.recent_additions # {}
    /\ next_refresh < 0

\* the drawable area: rows 0 .. height - 2, columns 0 .. width - 1
Drawable == (0 .. height - 2) \X (0 .. width - 1)

\* C19: every cell a worker writes is in the drawable area, and so is the
\* position of every worker that has spawned, after each of its steps; no
\* write raises curses.error.
C19_WritesInBounds ==
    /\ \A k \in DOMAIN calls : calls[k].op = "write" => calls[k].cell \in Drawable
    /\ \A id \in WorkerIds :
           IF workers[id].x = None
           THEN workers[id].y = None /\ workers[id].cells = <<>>
           ELSE /\ <<workers[id].y, workers[id].x>> \in Drawable
                /\ ListCells(id) \subseteq Drawable
    /\ DOMAIN display.cells \subseteq Drawable
    /\ exc # "curses.error"

\* a worker has written the last cell of the last drawable row and is back at
\* row 0, still writing
C19_Witness ==
    /\ calls # <<>>
    /\ calls[1].op = "write"
    /\ calls[1].cell = <<height - 2, width - 1>>
    /\ workers[calls[1].id].y = 0
    /\ workers[calls[1].id].state = "write"
    /\ workers[calls[1].id].text # <<>>

\* C20: no pending removal has an occupancy entry, so the test of refresh
\* (cell not in self.cells) holds for every pending removal; when run has
\* returned, the occupancy map and both pending sets are empty.
C20_RemovalsUnoccupied ==
    /\ display.recent_removals \cap DOMAIN display.cells = {}
    /\ pc = "done" =>
          /\ display.cells = EmptyDict
          /\ display.recent_removals = {}
          /\ display.recent_additions = {}

\* a worker has just written a cell that was a pending removal: the cell is
\* occupied and no longer pending removal, while another removal is pending
C20_Witness ==
    /\ \E k \in DOMAIN calls :
           /\ calls[k].op = "write"
           /\ calls[k].pending = "removal"
           /\ calls[k].cell \in DOMAIN display.cells
           /\ calls[k].cell \notin display.recent_removals
    /\ display.recent_removals # {}

====
